---- MODULE Spec2Model ----
(***************************************************************************)
(* Audio-to-sign-video job pipeline of asl-translator-2.                   *)
(*                                                                         *)
(* Two deployments share worker.py: app.py (passes the worker the five     *)
(* arguments it declares) and main.py (passes seven).  The model covers    *)
(* the job store, the submission handlers, the status query, the worker    *)
(* thread and the two plan builders (worker.py inline, main.py             *)
(* build_video_plan).  Three functions are also modelled step by step,     *)
(* each in a specification of its own: the clip resolvers (SpecResolve),   *)
(* generate_merged_video with its temporary files (SpecMerge) and the      *)
(* transcription poll loop (SpecPoll).                                     *)
(*                                                                         *)
(* Text is a sequence of one-character strings.  Durations are exact       *)
(* rationals in milliseconds, <<num, den>>; the source computes them in    *)
(* seconds with binary floating point, whose rounding is not modelled.     *)
(***************************************************************************)
EXTENDS Integers, Sequences, FiniteSets, TLC

\* ------------------------------------------------------------------ bounds
MaxJobs == 2
MaxPolls == 2
MaxWords == 2
MaxRestarts == 1
MaxLetters == 7
MaxClips == 2

\* --------------------------------------------------------- program constants
WordFloorMs == 120
MainWordFloorMs == 100
ClipFloorMs == 80
MinAudioBytes == 1000
WorkerArity == 5

\* ------------------------------------------------------------------- text
Punct == {"."}
Space == {" "}

Lower(c) == IF c = "A" THEN "a" ELSE c

RECURSIVE StripPunctRec(_)
StripPunctRec(t) ==
    IF t = <<>> THEN <<>>
    ELSE IF Head(t) \in Punct THEN StripPunctRec(Tail(t))
    ELSE <<Lower(Head(t))>> \o StripPunctRec(Tail(t))

\* app.py / main.py _strip_punct: drop punctuation, lower-case
_strip_punct(t) == StripPunctRec(t)

RECURSIVE LStrip(_)
LStrip(t) == IF t # <<>> /\ Head(t) \in Space THEN LStrip(Tail(t)) ELSE t

RECURSIVE RStrip(_)
RStrip(t) ==
    IF t # <<>> /\ t[Len(t)] \in Space THEN RStrip(SubSeq(t, 1, Len(t) - 1)) ELSE t

\* str.strip()
Strip(t) == RStrip(LStrip(t))

\* str.split(): the maximal runs of non-space characters, in order
RECURSIVE SplitRec(_, _)
SplitRec(t, cur) ==
    IF t = <<>> THEN (IF cur = <<>> THEN <<>> ELSE <<cur>>)
    ELSE IF Head(t) \in Space
         THEN (IF cur = <<>> THEN <<>> ELSE <<cur>>) \o SplitRec(Tail(t), <<>>)
         ELSE SplitRec(Tail(t), Append(cur, Head(t)))

Split(t) == SplitRec(t, <<>>)

\* ------------------------------------------------------- clip lookup service
\* What the lookup service answers for a normalised token: ApiFail is a
\* network or parse error, n >= 0 the length of the JSON list it returns.
ApiFail == -1
ApiAnswers == {ApiFail, 0, 2}
Tokens == {<<"a">>, <<"b">>, <<"a", "b">>}
Tables == [Tokens -> ApiAnswers]

Url(token, i) == <<token, i>>

\* mutant of get_asl_video_url: only an empty list counts as no result
get_asl_video_url_error_as_hit(table, token) ==
    LET t == _strip_punct(token) IN
    IF t = <<>> THEN <<>>
    ELSE IF t \notin DOMAIN table THEN <<>>
    ELSE IF table[t] # 0 THEN <<Url(t, 1)>>
    ELSE <<>>

\* app.py / main.py get_asl_video_url: first video_url of the list, or None
\* (modelled as <<>>) for an empty token, an empty list or a caught error.
get_asl_video_url(table, token) ==
    LET t == _strip_punct(token) IN
    IF t = <<>> THEN <<>>
    ELSE IF t \notin DOMAIN table THEN <<>>
    ELSE IF table[t] >= 1 THEN <<Url(t, 1)>>
    ELSE <<>>

RECURSIVE LetterUrls(_, _)
LetterUrls(table, w) ==
    IF w = <<>> THEN <<>>
    ELSE get_asl_video_url(table, <<Head(w)>>) \o LetterUrls(table, Tail(w))

WordUrls(table, w) ==
    LET u == get_asl_video_url(table, w) IN
    IF u # <<>> THEN u ELSE LetterUrls(table, w)

RECURSIVE SentenceUrls(_, _)
SentenceUrls(table, ws) ==
    IF ws = <<>> THEN <<>>
    ELSE WordUrls(table, Head(ws)) \o SentenceUrls(table, Tail(ws))

\* app.py translate_text_to_sign: the resolver app.py hands to the worker
translate_text_to_sign(table, sentence) ==
    SentenceUrls(table, Split(_strip_punct(sentence)))

\* main.py lookup_sign_urls_for_word
lookup_sign_urls_for_word(table, word) ==
    LET w == _strip_punct(word) IN
    IF w = <<>> THEN <<>> ELSE WordUrls(table, w)

\* ----------------------------------------------------------- plan builders
\* A transcript word {text, start, end}, offsets in milliseconds.
Texts == {<<>>, <<"a">>, <<"A", ".">>, <<"a", "b">>, <<"b", " ", "a">>, <<" ">>}
Spans == {<<0, 50>>, <<100, 210>>, <<100, 400>>}
WordRecs == [text : Texts, start : {s[1] : s \in Spans}, end : {s[2] : s \in Spans}]
Words == {w \in WordRecs : <<w.start, w.end>> \in Spans}

NoTok == <<"-">>

Max(a, b) == IF a >= b THEN a ELSE b

\* mutant of PerClip: the per-clip floor is forgotten
PerClipNoFloor(durMs, k) == <<durMs, k>>

\* dur / k floored at ClipFloorMs, as a fraction of milliseconds
PerClip(durMs, k) == IF durMs >= ClipFloorMs * k THEN <<durMs, k>> ELSE <<ClipFloorMs, 1>>

\* worker.py 292-319: the entries one word appends to the plan.  i is the
\* word's position in the transcript, kept in the entry as a history field.
WorkerWordEntries(table, w, i) ==
    LET text == Strip(w.text)
        dur == Max(w.end - w.start, WordFloorMs)
        urls == IF text = <<>> THEN <<>> ELSE translate_text_to_sign(table, text)
    IN  IF urls = <<>> THEN <<>>
        ELSE IF Len(urls) = 1
             THEN <<[url |-> urls[1], dur |-> <<dur, 1>>, tok |-> text, w |-> i]>>
             ELSE [n \in 1..Len(urls) |->
                     [url |-> urls[n], dur |-> PerClip(dur, Len(urls)), tok |-> text, w |-> i]]

\* main.py 132-146: the entries one word appends to the plan
MainWordEntries(table, w, i) ==
    LET dur == Max(w.end - w.start, MainWordFloorMs)
        urls == lookup_sign_urls_for_word(table, w.text)
    IN  IF urls = <<>> THEN <<>>
        ELSE IF Len(urls) = 1
             THEN <<[url |-> urls[1], dur |-> <<dur, 1>>, tok |-> NoTok, w |-> i]>>
             ELSE [n \in 1..Len(urls) |->
                     [url |-> urls[n], dur |-> PerClip(dur, Len(urls)), tok |-> NoTok, w |-> i]]

RECURSIVE WorkerPlanFrom(_, _, _)
WorkerPlanFrom(table, ws, i) ==
    IF i > Len(ws) THEN <<>>
    ELSE WorkerWordEntries(table, ws[i], i) \o WorkerPlanFrom(table, ws, i + 1)

\* worker.py 291-319: the whole plan of a transcript
WorkerPlan(table, ws) == WorkerPlanFrom(table, ws, 1)

VARIABLES
    signs,      \* the lookup service's answers, stable for the process (lru_cache)
    pbuilder,   \* plan run: which builder runs ("worker" | "main" | "none")
    pwords,     \* plan run: the transcript's word list
    pidx,       \* plan run: number of words consumed
    pplan,      \* plan run: the plan built so far
    deployed,   \* which application serves requests: "app" (app.py) or "main" (main.py)
    aai_key,    \* whether ASSEMBLYAI_API_KEY is set
    nextId,     \* the next fresh job id (uuid4 never repeats)
    video_jobs, \* the in-memory job store: job id -> record
    disk_jobs,  \* jobs/<job_id>.json on disk: job id -> payload
    endpoint,   \* per job: the submission endpoint that created it
    input,      \* per job: the submitted audio payload
    hpc,        \* per job: the submission handler's position
    http,       \* per job: the handler's HTTP status (0 before it returns)
    temp,       \* per job: size of temp_<job_id><ext>, NoFile when absent
    out,        \* per job: state of output_<job_id>.mp4
    wpc,        \* per job: the worker thread's position
    werr,       \* per job: the exception the worker is handling
    polls,      \* per job: transcript polls answered "processing" so far
    aai,        \* per job: index of the transcript returned (0 before)
    plan,       \* per job: the worker's video plan
    termWrites, \* per job: history, writes of a terminal record to video_jobs
    lastStatus, \* the last video_status call: the job id asked for and the response
    restarts,   \* number of process restarts so far
    rsigns,     \* resolver run: the lookup service's answers
    rresolver,  \* resolver run: whose resolver runs ("app" | "main" | "signals" | "none")
    rword,      \* resolver run: the word handed to the resolver
    rpc,        \* resolver run: position ("word" | "letters" | "done")
    ridx,       \* resolver run: letters consumed by the fingerspelling loop
    rurls,      \* resolver run: the list being built / returned
    rcalls,     \* resolver run: history, the tokens looked up so far
    mplan,      \* merge run: video_plan, the entries handed to generate_merged_video
    mpc,        \* merge run: position ("loop" | "concat" | "finally" | "returned" | "raised" | "none")
    midx,       \* merge run: plan entries consumed by the loop
    tmp_files,  \* merge run: the list tmp_files
    clips,      \* merge run: the list clips
    mfiles,     \* merge run: the temporary per-clip files that exist on disk
    mfate,      \* merge run: history, what became of each entry consumed
    mvideo,     \* merge run: the clips handed to the encoder, in order
    mout,       \* merge run: state of the file at output_path
    merr,       \* merge run: the exception generate_merged_video is raising ("" for none)
    tscript,    \* poll run: the answers the transcription service gives, in order
    tpc,        \* poll run: position ("request" | "sleep" | "returned" | "raised" | "plan" | "recorded" | "none")
    tseen,      \* poll run: history, the answers received so far
    tresult,    \* poll run: index of the transcript returned (0 for none)
    terr,       \* poll run: the exception raised ("" for none)
    trecord     \* poll run: the job's record

planVars == <<signs, pbuilder, pwords, pidx, pplan>>

jobVars == <<deployed, aai_key, nextId, video_jobs, disk_jobs, endpoint, input, hpc,
             http, temp, out, wpc, werr, polls, aai, plan, termWrites, lastStatus,
             restarts>>

resVars == <<rsigns, rresolver, rword, rpc, ridx, rurls, rcalls>>

mergeVars == <<mplan, mpc, midx, tmp_files, clips, mfiles, mfate, mvideo, mout, merr>>

pollVars == <<tscript, tpc, tseen, tresult, terr, trecord>>

sideVars == <<resVars, mergeVars, pollVars>>

vars == <<signs, pbuilder, pwords, pidx, pplan, deployed, aai_key, nextId, video_jobs,
          disk_jobs, endpoint, input, hpc, http, temp, out, wpc, werr, polls, aai, plan,
          termWrites, lastStatus, restarts, rsigns, rresolver, rword, rpc, ridx, rurls,
          rcalls, mplan, mpc, midx, tmp_files, clips, mfiles, mfate, mvideo, mout, merr,
          tscript, tpc, tseen, tresult, terr, trecord>>

\* ------------------------------------------------------------- job store
JobIds == 1..MaxJobs
NoFile == -1
NoUrl == <<>>
Absent == "(absent)"

\* A record or response as a dict with four possible keys; a key the dict
\* does not hold is NoUrl / Absent.
Rec(status, url, err, tr) ==
    [status |-> status, video_url |-> url, error |-> err, transcript |-> tr]

\* {"status": "processing", "transcript": ""}
ProcessingRecord == Rec("processing", NoUrl, Absent, "")

\* f"/videos/output_{job_id}.mp4"
OutputUrl(j) == <<"/videos/output_", j, ".mp4">>

\* mutant of ReadyPayload: the ready payload also carries an "error" key
ReadyPayloadWithError(j, transcript) == Rec("ready", OutputUrl(j), "", transcript)

\* worker.py 328: {"status": "ready", "video_url": rel_url, "transcript": transcript}
ReadyPayload(j, transcript) == Rec("ready", OutputUrl(j), Absent, transcript)

\* worker.py 335, app.py 88: {"status": "error", "error": ...}
ErrorPayload(msg) == Rec("error", NoUrl, msg, Absent)

\* video_jobs[job_id] = rec
Put(store, j, rec) == [k \in DOMAIN store \cup {j} |-> IF k = j THEN rec ELSE store[k]]

\* Environment assumption: the static directory is writable, so the open()
\* and json.dump() of _write_job succeed.
StaticDirWritable == TRUE

\* worker.py _write_job: dump the payload to jobs/<job_id>.json; an I/O
\* failure (ok = FALSE) is logged and swallowed.
_write_job(disk, j, payload, ok) == IF ok THEN Put(disk, j, payload) ELSE disk

NotFound == Rec("not_found", NoUrl, Absent, Absent)
NoResp == Rec("(none)", NoUrl, Absent, Absent)

\* mutant of video_status: an unknown id is answered like a job in progress
video_status_unknown_processing(app, store, j) ==
    IF j \notin DOMAIN store THEN Rec("processing", NoUrl, Absent, Absent)
    ELSE LET job == store[j] IN
         IF job.status = "ready" THEN Rec("ready", job.video_url, Absent, job.transcript)
         ELSE IF job.status = "error" THEN Rec("error", NoUrl, job.error, Absent)
         ELSE Rec("processing", NoUrl, Absent, Absent)

\* app.py 107-120 / main.py 285-295: video_status
video_status(app, store, j) ==
    IF j \notin DOMAIN store THEN NotFound
    ELSE LET job == store[j] IN
         IF job.status = "ready"
         THEN Rec("ready",
                  IF app = "main" /\ job.video_url = NoUrl THEN OutputUrl(j) ELSE job.video_url,
                  Absent,
                  IF job.transcript = Absent THEN "" ELSE job.transcript)
         ELSE IF job.status = "error" THEN Rec("error", NoUrl, job.error, Absent)
         ELSE Rec("processing", NoUrl, Absent, Absent)

\* ------------------------------------------------------------- submissions
\* A submitted payload: n base64 data characters (after the decoder's
\* clean-up) in a JSON or form field, or n raw bytes in a multipart file.
Inputs == {[src |-> "b64", n |-> 0], [src |-> "b64", n |-> 5], [src |-> "b64", n |-> 1336],
           [src |-> "file", n |-> 0], [src |-> "file", n |-> 2000]}

\* base64.b64decode raises when the data characters number 1 more than a multiple of 4
Undecodable(inp) == inp.src = "b64" /\ inp.n % 4 = 1

\* number of bytes the payload decodes to
DecodedSize(inp) == IF inp.src = "file" THEN inp.n ELSE (inp.n * 3) \div 4

Endpoints(app) ==
    IF app = "app" THEN {"translate_audio"} ELSE {"translate_audio", "translate_audio_form"}

InputsFor(ep) == IF ep = "translate_audio" THEN {i \in Inputs : i.src = "b64"} ELSE Inputs

\* number of positional arguments the deployment passes to process_audio_worker
ThreadArgs(app) == IF app = "app" THEN 5 ELSE 7

\* ------------------------------------------------------------ transcription
MsgInvalidB64 == "Invalid base64"
MsgNoKey == "ASSEMBLYAI_API_KEY not set"
MsgTooSmall == "Audio file missing or too small"
MsgHttp == "HTTPError"
MsgAaiError == "AssemblyAI error"
MsgNoClips == "No ASL clips available to merge."
MsgNotWritten == "Video file not written or empty."
MsgEncoder == "encoder error"

\* The transcripts the service may return on "completed".
AaiResponses ==
    << [text |-> "", words |-> <<>>],
       [text |-> "ab a", words |-> <<[text |-> <<"a", "b">>, start |-> 100, end |-> 210],
                                     [text |-> <<"a">>, start |-> 0, end |-> 50]>>] >>

NoHits == [t \in Tokens |-> 0]
\* "a" has two clips; the lookup of every other token ends in a network or
\* parse error
Flaky == [t \in Tokens |-> IF t = <<"a">> THEN 2 ELSE ApiFail]
JobTables == {NoHits, Flaky}

WordLists == UNION {[1..n -> Words] : n \in 0..MaxWords}

\* the state right after the process started: no job yet
JobsFresh ==
    /\ nextId = 1
    /\ video_jobs = <<>>
    /\ disk_jobs = <<>>
    /\ endpoint = [j \in JobIds |-> "none"]
    /\ input = [j \in JobIds |-> [src |-> "b64", n |-> 0]]
    /\ hpc = [j \in JobIds |-> "idle"]
    /\ http = [j \in JobIds |-> 0]
    /\ temp = [j \in JobIds |-> NoFile]
    /\ out = [j \in JobIds |-> "absent"]
    /\ wpc = [j \in JobIds |-> "none"]
    /\ werr = [j \in JobIds |-> ""]
    /\ polls = [j \in JobIds |-> 0]
    /\ aai = [j \in JobIds |-> 0]
    /\ plan = [j \in JobIds |-> <<>>]
    /\ termWrites = [j \in JobIds |-> 0]
    /\ lastStatus = [job |-> 0, resp |-> NoResp]
    /\ restarts = 0

JobsIdle == deployed = "app" /\ aai_key = TRUE /\ JobsFresh

\* no resolver run
ResolverIdle ==
    /\ rsigns = <<>>
    /\ rresolver = "none"
    /\ rword = <<>>
    /\ rpc = "done"
    /\ ridx = 0
    /\ rurls = <<>>
    /\ rcalls = <<>>

\* no merge run
MergeIdle ==
    /\ mplan = <<>>
    /\ mpc = "none"
    /\ midx = 0
    /\ tmp_files = <<>>
    /\ clips = <<>>
    /\ mfiles = {}
    /\ mfate = <<>>
    /\ mvideo = <<>>
    /\ mout = "absent"
    /\ merr = ""

\* no poll run
PollIdle ==
    /\ tscript = <<>>
    /\ tpc = "none"
    /\ tseen = <<>>
    /\ tresult = 0
    /\ terr = ""
    /\ trecord = ProcessingRecord

\* none of the single-function runs is in progress
SideIdle == ResolverIdle /\ MergeIdle /\ PollIdle

\* ------------------------------------------------ plan run (pure functions)
InitPlan ==
    /\ signs \in Tables
    /\ pbuilder \in {"worker", "main"}
    /\ pwords \in WordLists
    /\ pidx = 0
    /\ pplan = <<>>
    /\ JobsIdle
    /\ SideIdle

\* mutant of WorkerPlanStep: the word's entries are put in front of the plan
WorkerPlanStepPrepend ==
    /\ pbuilder = "worker"
    /\ pidx < Len(pwords)
    /\ pidx' = pidx + 1
    /\ pplan' = WorkerWordEntries(signs, pwords[pidx + 1], pidx + 1) \o pplan
    /\ UNCHANGED <<signs, pbuilder, pwords>>
    /\ UNCHANGED <<jobVars, sideVars>>

\* one iteration of worker.py's `for w in words`
WorkerPlanStep ==
    /\ pbuilder = "worker"
    /\ pidx < Len(pwords)
    /\ pidx' = pidx + 1
    /\ pplan' = pplan \o WorkerWordEntries(signs, pwords[pidx + 1], pidx + 1)
    /\ UNCHANGED <<signs, pbuilder, pwords>>
    /\ UNCHANGED <<jobVars, sideVars>>

\* one iteration of main.py build_video_plan's `for w in assemblyai_words`
MainPlanStep ==
    /\ pbuilder = "main"
    /\ pidx < Len(pwords)
    /\ pidx' = pidx + 1
    /\ pplan' = pplan \o MainWordEntries(signs, pwords[pidx + 1], pidx + 1)
    /\ UNCHANGED <<signs, pbuilder, pwords>>
    /\ UNCHANGED <<jobVars, sideVars>>

NextPlan == WorkerPlanStep \/ MainPlanStep

SpecPlan == InitPlan /\ [][NextPlan]_vars

\* ------------------------------------------------------ the job lifecycle
Init ==
    /\ signs \in JobTables
    /\ pbuilder = "none"
    /\ pwords = <<>>
    /\ pidx = 0
    /\ pplan = <<>>
    /\ deployed \in {"app", "main"}
    /\ aai_key \in BOOLEAN
    /\ JobsFresh
    /\ SideIdle

\* The handlers are coroutines on one event loop: one that has started runs
\* until its first await before another starts.  Only translate_audio_form
\* with a multipart file awaits (main.py 213, file.read()).
HandlerBusy ==
    \E j \in JobIds :
        /\ hpc[j] = "created"
        /\ ~(endpoint[j] = "translate_audio_form" /\ input[j].src = "file")

\* First statements of every submission handler (app.py 82-83, main.py
\* 206-207 and 253-254): a fresh uuid and the initial processing record.
Submit(ep, inp) ==
    /\ nextId <= MaxJobs
    /\ ~HandlerBusy
    /\ ep \in Endpoints(deployed)
    /\ inp \in InputsFor(ep)
    /\ video_jobs' = Put(video_jobs, nextId, ProcessingRecord)
    /\ endpoint' = [endpoint EXCEPT ![nextId] = ep]
    /\ input' = [input EXCEPT ![nextId] = inp]
    /\ hpc' = [hpc EXCEPT ![nextId] = "created"]
    /\ nextId' = nextId + 1
    /\ UNCHANGED <<deployed, aai_key, disk_jobs, http, temp, out, wpc, werr, polls, aai,
                   plan, termWrites, lastStatus, restarts>>
    /\ UNCHANGED <<planVars, sideVars>>

\* app.py translate_audio, lines 85-105
AppTranslateAudio(j) ==
    /\ deployed = "app"
    /\ hpc[j] = "created"
    /\ hpc' = [hpc EXCEPT ![j] = "returned"]
    /\ IF Undecodable(input[j])
       THEN /\ video_jobs' = Put(video_jobs, j, ErrorPayload(MsgInvalidB64))
            /\ termWrites' = [termWrites EXCEPT ![j] = @ + 1]
            /\ http' = [http EXCEPT ![j] = 400]
            /\ UNCHANGED <<temp, wpc>>
       ELSE /\ temp' = [temp EXCEPT ![j] = DecodedSize(input[j])]
            /\ wpc' = [wpc EXCEPT ![j] = "spawned"]
            /\ http' = [http EXCEPT ![j] = 200]
            /\ UNCHANGED <<video_jobs, termWrites>>
    /\ UNCHANGED <<deployed, aai_key, nextId, disk_jobs, endpoint, input, out, werr, polls,
                   aai, plan, lastStatus, restarts>>
    /\ UNCHANGED <<planVars, sideVars>>

\* main.py translate_audio, lines 257-283
MainTranslateAudio(j) ==
    /\ deployed = "main"
    /\ endpoint[j] = "translate_audio"
    /\ hpc[j] = "created"
    /\ hpc' = [hpc EXCEPT ![j] = "returned"]
    /\ IF Undecodable(input[j])
       THEN /\ http' = [http EXCEPT ![j] = 400]
            /\ UNCHANGED <<temp, wpc>>
       ELSE /\ temp' = [temp EXCEPT ![j] = DecodedSize(input[j])]
            /\ IF DecodedSize(input[j]) = 0
               THEN /\ http' = [http EXCEPT ![j] = 400]
                    /\ UNCHANGED wpc
               ELSE /\ wpc' = [wpc EXCEPT ![j] = "spawned"]
                    /\ http' = [http EXCEPT ![j] = 200]
    /\ UNCHANGED <<deployed, aai_key, nextId, video_jobs, disk_jobs, endpoint, input, out,
                   werr, polls, aai, plan, termWrites, lastStatus, restarts>>
    /\ UNCHANGED <<planVars, sideVars>>

\* main.py translate_audio_form, lines 209-246
MainTranslateAudioForm(j) ==
    /\ deployed = "main"
    /\ endpoint[j] = "translate_audio_form"
    /\ hpc[j] = "created"
    /\ hpc' = [hpc EXCEPT ![j] = "returned"]
    /\ IF Undecodable(input[j])
       THEN /\ http' = [http EXCEPT ![j] = 500]
            /\ UNCHANGED <<temp, wpc>>
       ELSE IF DecodedSize(input[j]) = 0
       THEN /\ http' = [http EXCEPT ![j] = 422]
            /\ UNCHANGED <<temp, wpc>>
       ELSE /\ temp' = [temp EXCEPT ![j] = DecodedSize(input[j])]
            /\ wpc' = [wpc EXCEPT ![j] = "spawned"]
            /\ http' = [http EXCEPT ![j] = 200]
    /\ UNCHANGED <<deployed, aai_key, nextId, video_jobs, disk_jobs, endpoint, input, out,
                   werr, polls, aai, plan, termWrites, lastStatus, restarts>>
    /\ UNCHANGED <<planVars, sideVars>>

\* app.py / main.py video_status
StatusQuery(j) ==
    /\ lastStatus' = [job |-> j, resp |-> video_status(deployed, video_jobs, j)]
    /\ UNCHANGED <<deployed, aai_key, nextId, video_jobs, disk_jobs, endpoint, input, hpc,
                   http, temp, out, wpc, werr, polls, aai, plan, termWrites, restarts>>
    /\ UNCHANGED <<planVars, sideVars>>

\* ---------------------------------------------------------- worker thread
\* what every worker step leaves alone
WorkerFrame ==
    /\ UNCHANGED <<deployed, aai_key, nextId, endpoint, input, hpc, http, lastStatus,
                   restarts>>
    /\ UNCHANGED <<planVars, sideVars>>

\* `raise` inside process_audio_worker's try: control goes to line 333 with
\* the exception; the except block reads none of the other locals, which the
\* model drops here (polls, aai, plan).
Raise(j, msg) ==
    /\ wpc' = [wpc EXCEPT ![j] = "except"]
    /\ werr' = [werr EXCEPT ![j] = msg]
    /\ polls' = [polls EXCEPT ![j] = 0]
    /\ aai' = [aai EXCEPT ![j] = 0]
    /\ plan' = [plan EXCEPT ![j] = <<>>]

\* threading.Thread(target=process_audio_worker, args=...).start(): the call
\* binds the arguments; with a count other than the five declared it raises
\* TypeError in the thread, before the function body runs.
WorkerStart(j) ==
    /\ wpc[j] = "spawned"
    /\ wpc' = [wpc EXCEPT ![j] =
                 IF ThreadArgs(deployed) = WorkerArity THEN "transcribe" ELSE "crashed"]
    /\ UNCHANGED <<video_jobs, disk_jobs, temp, out, werr, polls, aai, plan, termWrites>>
    /\ WorkerFrame

\* worker.py transcribe_with_assemblyai, lines 43-79: key, file check,
\* upload and transcript creation (either request may fail)
WorkerTranscribe(j) ==
    /\ wpc[j] = "transcribe"
    /\ IF ~aai_key THEN Raise(j, MsgNoKey)
       ELSE IF temp[j] = NoFile \/ temp[j] < MinAudioBytes THEN Raise(j, MsgTooSmall)
       ELSE \E ok \in BOOLEAN :
              IF ok THEN wpc' = [wpc EXCEPT ![j] = "poll"] /\ UNCHANGED <<werr, polls, aai, plan>>
              ELSE Raise(j, MsgHttp)
    /\ UNCHANGED <<video_jobs, disk_jobs, temp, out, termWrites>>
    /\ WorkerFrame

\* worker.py transcribe_with_assemblyai, lines 82-92: one round of the poll
\* loop.  The service answers "processing" at most MaxPolls times.
WorkerPoll(j) ==
    /\ wpc[j] = "poll"
    /\ \E status \in {"processing", "completed", "error", "http_error"} :
         CASE status = "processing" ->
                /\ polls[j] < MaxPolls
                /\ polls' = [polls EXCEPT ![j] = @ + 1]
                /\ UNCHANGED <<wpc, werr, aai, plan>>
           [] status = "completed" ->
                /\ \E r \in 1..Len(AaiResponses) : aai' = [aai EXCEPT ![j] = r]
                /\ wpc' = [wpc EXCEPT ![j] = "plan"]
                /\ polls' = [polls EXCEPT ![j] = 0]
                /\ UNCHANGED <<werr, plan>>
           [] status = "error" -> Raise(j, MsgAaiError)
           [] status = "http_error" -> Raise(j, MsgHttp)
    /\ UNCHANGED <<video_jobs, disk_jobs, temp, out, termWrites>>
    /\ WorkerFrame

\* mutant of WorkerBuildPlan: the empty plan is not checked and goes to merge
WorkerBuildPlanNoCheck(j) ==
    /\ wpc[j] = "plan"
    /\ plan' = [plan EXCEPT ![j] = WorkerPlan(signs, AaiResponses[aai[j]].words)]
    /\ wpc' = [wpc EXCEPT ![j] = "merge"]
    /\ UNCHANGED <<werr, polls, aai>>
    /\ UNCHANGED <<video_jobs, disk_jobs, temp, out, termWrites>>
    /\ WorkerFrame

\* worker.py 286-322: build the plan, fail on an empty one
WorkerBuildPlan(j) ==
    /\ wpc[j] = "plan"
    /\ LET p == WorkerPlan(signs, AaiResponses[aai[j]].words) IN
         IF p = <<>> THEN Raise(j, MsgNoClips)
         ELSE /\ plan' = [plan EXCEPT ![j] = p]
              /\ wpc' = [wpc EXCEPT ![j] = "merge"]
              /\ UNCHANGED <<werr, polls, aai>>
    /\ UNCHANGED <<video_jobs, disk_jobs, temp, out, termWrites>>
    /\ WorkerFrame

\* mutant of WorkerMerge: the written file is not checked, a missing or
\* empty one passes for a success
WorkerMergeNoCheck(j) ==
    /\ wpc[j] = "merge"
    /\ \E fetched \in SUBSET (1..Len(plan[j])) :
         IF fetched = {}
         THEN Raise(j, MsgNoClips) /\ UNCHANGED out
         ELSE \E enc \in {"valid", "empty", "missing", "raise_partial", "raise_absent"} :
                CASE enc = "valid" ->
                       /\ out' = [out EXCEPT ![j] = "valid"]
                       /\ wpc' = [wpc EXCEPT ![j] = "ready"]
                       /\ UNCHANGED <<werr, polls, aai, plan>>
                  [] enc = "empty" ->
                       /\ out' = [out EXCEPT ![j] = "empty"]
                       /\ wpc' = [wpc EXCEPT ![j] = "ready"]
                       /\ UNCHANGED <<werr, polls, aai, plan>>
                  [] enc = "missing" ->
                       /\ UNCHANGED out
                       /\ wpc' = [wpc EXCEPT ![j] = "ready"]
                       /\ UNCHANGED <<werr, polls, aai, plan>>
                  [] enc = "raise_partial" ->
                       /\ out' = [out EXCEPT ![j] = "partial"]
                       /\ Raise(j, MsgEncoder)
                  [] enc = "raise_absent" ->
                       /\ UNCHANGED out
                       /\ Raise(j, MsgEncoder)
    /\ UNCHANGED <<video_jobs, disk_jobs, temp, termWrites>>
    /\ WorkerFrame

\* worker.py 324-325, generate_merged_video: `fetched` are the plan entries
\* whose clip was fetched and opened, `enc` what write_videofile did.
WorkerMerge(j) ==
    /\ wpc[j] = "merge"
    /\ \E fetched \in SUBSET (1..Len(plan[j])) :
         IF fetched = {}
         THEN Raise(j, MsgNoClips) /\ UNCHANGED out
         ELSE \E enc \in {"valid", "empty", "missing", "raise_partial", "raise_absent"} :
                CASE enc = "valid" ->
                       /\ out' = [out EXCEPT ![j] = "valid"]
                       /\ wpc' = [wpc EXCEPT ![j] = "ready"]
                       /\ UNCHANGED <<werr, polls, aai, plan>>
                  [] enc = "empty" ->
                       /\ out' = [out EXCEPT ![j] = "empty"]
                       /\ Raise(j, MsgNotWritten)
                  [] enc = "missing" ->
                       /\ UNCHANGED out
                       /\ Raise(j, MsgNotWritten)
                  [] enc = "raise_partial" ->
                       /\ out' = [out EXCEPT ![j] = "partial"]
                       /\ Raise(j, MsgEncoder)
                  [] enc = "raise_absent" ->
                       /\ UNCHANGED out
                       /\ Raise(j, MsgEncoder)
    /\ UNCHANGED <<video_jobs, disk_jobs, temp, termWrites>>
    /\ WorkerFrame

\* mutant of WorkerReady: the disk write is not guarded, so its failure
\* escapes to the except block after the ready record was stored
WorkerReadyThenRaise(j) ==
    /\ wpc[j] = "ready"
    /\ video_jobs' = Put(video_jobs, j, ReadyPayload(j, AaiResponses[aai[j]].text))
    /\ termWrites' = [termWrites EXCEPT ![j] = @ + 1]
    /\ Raise(j, "job write failed")
    /\ UNCHANGED <<disk_jobs, temp, out>>
    /\ WorkerFrame

\* worker.py 327-331: record ready in memory, then on disk
WorkerReady(j) ==
    /\ wpc[j] = "ready"
    /\ LET payload == ReadyPayload(j, AaiResponses[aai[j]].text) IN
         /\ video_jobs' = Put(video_jobs, j, payload)
         /\ disk_jobs' = _write_job(disk_jobs, j, payload, StaticDirWritable)
    /\ termWrites' = [termWrites EXCEPT ![j] = @ + 1]
    /\ wpc' = [wpc EXCEPT ![j] = "finally"]
    /\ aai' = [aai EXCEPT ![j] = 0]
    /\ plan' = [plan EXCEPT ![j] = <<>>]
    /\ UNCHANGED <<temp, out, werr, polls>>
    /\ WorkerFrame

\* mutant of WorkerExcept: the error is recorded under the id of the job
\* submitted last instead of the worker's own
WorkerExceptLatestJob(j) ==
    /\ wpc[j] = "except"
    /\ LET payload == ErrorPayload(werr[j]) IN
         /\ video_jobs' = Put(video_jobs, nextId - 1, payload)
         /\ disk_jobs' = _write_job(disk_jobs, nextId - 1, payload, StaticDirWritable)
    /\ termWrites' = [termWrites EXCEPT ![j] = @ + 1]
    /\ wpc' = [wpc EXCEPT ![j] = "finally"]
    /\ werr' = [werr EXCEPT ![j] = ""]
    /\ UNCHANGED <<temp, out, polls, aai, plan>>
    /\ WorkerFrame

\* worker.py 333-337: record the error in memory, then on disk
WorkerExcept(j) ==
    /\ wpc[j] = "except"
    /\ LET payload == ErrorPayload(werr[j]) IN
         /\ video_jobs' = Put(video_jobs, j, payload)
         /\ disk_jobs' = _write_job(disk_jobs, j, payload, StaticDirWritable)
    /\ termWrites' = [termWrites EXCEPT ![j] = @ + 1]
    /\ wpc' = [wpc EXCEPT ![j] = "finally"]
    /\ werr' = [werr EXCEPT ![j] = ""]
    /\ UNCHANGED <<temp, out, polls, aai, plan>>
    /\ WorkerFrame

\* worker.py 338-343: remove the temporary audio file
WorkerFinally(j) ==
    /\ wpc[j] = "finally"
    /\ temp' = [temp EXCEPT ![j] = NoFile]
    /\ wpc' = [wpc EXCEPT ![j] = "done"]
    /\ UNCHANGED <<video_jobs, disk_jobs, out, werr, polls, aai, plan, termWrites>>
    /\ WorkerFrame

Handler(j) == AppTranslateAudio(j) \/ MainTranslateAudio(j) \/ MainTranslateAudioForm(j)

process_audio_worker(j) ==
    \/ WorkerStart(j)
    \/ WorkerTranscribe(j)
    \/ WorkerPoll(j)
    \/ WorkerBuildPlan(j)
    \/ WorkerMerge(j)
    \/ WorkerReady(j)
    \/ WorkerExcept(j)
    \/ WorkerFinally(j)

Next ==
    \/ \E ep \in {"translate_audio", "translate_audio_form"}, inp \in Inputs : Submit(ep, inp)
    \/ \E j \in JobIds : Handler(j)
    \/ \E j \in JobIds : process_audio_worker(j)
    \/ \E j \in JobIds : StatusQuery(j)

Spec == Init /\ [][Next]_vars

\* ------------------------------------------------------- process restart
Running == {"spawned", "transcribe", "poll", "plan", "merge", "ready", "except", "finally"}

\* The process stops and starts again: the in-memory store is gone, daemon
\* threads and handlers in flight die, files stay.  main.py's startup hook
\* (clean_temp_files, lines 52-66) removes temp_* and static/output_*.mp4.
Restart ==
    /\ restarts < MaxRestarts
    /\ restarts' = restarts + 1
    /\ video_jobs' = <<>>
    /\ hpc' = [j \in JobIds |-> IF hpc[j] = "created" THEN "killed" ELSE hpc[j]]
    /\ wpc' = [j \in JobIds |-> IF wpc[j] \in Running THEN "killed" ELSE wpc[j]]
    /\ werr' = [j \in JobIds |-> ""]
    /\ polls' = [j \in JobIds |-> 0]
    /\ aai' = [j \in JobIds |-> 0]
    /\ plan' = [j \in JobIds |-> <<>>]
    /\ IF deployed = "main"
       THEN /\ temp' = [j \in JobIds |-> NoFile]
            /\ out' = [j \in JobIds |-> "absent"]
       ELSE UNCHANGED <<temp, out>>
    /\ UNCHANGED <<deployed, aai_key, nextId, disk_jobs, endpoint, input, http, termWrites,
                   lastStatus>>
    /\ UNCHANGED <<planVars, sideVars>>

NextRestart == Next \/ Restart

SpecRestart == Init /\ [][NextRestart]_vars

\* ------------------------------------------------ clip resolvers, step by step
\* The three resolvers of the repository, one lookup per step: app.py
\* translate_text_to_sign (the one app.py hands to the worker), main.py
\* lookup_sign_urls_for_word (handed to the worker by main.py) and
\* signals.py lookup_sign_urls_for_word (imported by neither).
WordCap == 2
LetterCap == 6

Min(a, b) == IF a <= b THEN a ELSE b

\* the word "abab..." of n letters
Alternating(n) == [i \in 1..n |-> IF i % 2 = 1 THEN "a" ELSE "b"]

ResWords == {<<>>, <<"a">>, <<"A", ".">>, <<"a", "b">>, [i \in 1..MaxLetters |-> "a"],
             Alternating(MaxLetters)}
ResAnswers == {ApiFail, 0, 1, 3}

\* signals.py _strip_punct: drop punctuation, lower-case, strip
signals_strip_punct(t) == Strip(StripPunctRec(t))

\* signals.py fetch_signasl_urls: every URL found for the token; an error of
\* a request is swallowed and leaves nothing found
fetch_signasl_urls(table, token) ==
    LET t == signals_strip_punct(token) IN
    IF t = <<>> \/ t \notin DOMAIN table THEN <<>>
    ELSE IF table[t] >= 1 THEN [i \in 1..table[t] |-> Url(t, i)]
    ELSE <<>>

InitResolve ==
    /\ rresolver \in {"app", "main", "signals"}
    /\ rword \in ResWords
    /\ rsigns \in [{<<"a">>, <<"b">>} \cup ({_strip_punct(rword)} \ {<<>>}) -> ResAnswers]
    /\ rpc = "word"
    /\ ridx = 0
    /\ rurls = <<>>
    /\ rcalls = <<>>
    /\ signs = NoHits
    /\ pbuilder = "none"
    /\ pwords = <<>>
    /\ pidx = 0
    /\ pplan = <<>>
    /\ JobsIdle
    /\ MergeIdle
    /\ PollIdle

ResolveFrame ==
    /\ UNCHANGED <<rsigns, rresolver, rword>>
    /\ UNCHANGED <<planVars, jobVars, mergeVars, pollVars>>

\* app.py 60-66: the words of the sentence (ResWords hold no inner space, so
\* at most one) and the whole-word lookup
AppResolveWord ==
    /\ rresolver = "app"
    /\ rpc = "word"
    /\ LET words == Split(_strip_punct(rword)) IN
         IF words = <<>>
         THEN rpc' = "done" /\ UNCHANGED <<rurls, rcalls>>
         ELSE LET u == get_asl_video_url(rsigns, words[1]) IN
              /\ rcalls' = Append(rcalls, words[1])
              /\ rurls' = u
              /\ rpc' = IF u # <<>> THEN "done" ELSE "letters"
    /\ UNCHANGED ridx
    /\ ResolveFrame

\* app.py 67-70: one iteration of `for ch in w`
AppResolveLetter ==
    /\ rresolver = "app"
    /\ rpc = "letters"
    /\ LET w == Split(_strip_punct(rword))[1]
           ch == <<w[ridx + 1]>>
       IN  /\ rcalls' = Append(rcalls, ch)
           /\ rurls' = rurls \o get_asl_video_url(rsigns, ch)
           /\ ridx' = ridx + 1
           /\ rpc' = IF ridx + 1 = Len(w) THEN "done" ELSE "letters"
    /\ ResolveFrame

\* main.py 113-119
MainResolveWord ==
    /\ rresolver = "main"
    /\ rpc = "word"
    /\ LET w == _strip_punct(rword) IN
         IF w = <<>>
         THEN rpc' = "done" /\ UNCHANGED <<rurls, rcalls>>
         ELSE LET whole == get_asl_video_url(rsigns, w) IN
              /\ rcalls' = Append(rcalls, w)
              /\ rurls' = whole
              /\ rpc' = IF whole # <<>> THEN "done" ELSE "letters"
    /\ UNCHANGED ridx
    /\ ResolveFrame

\* main.py 120-124: one iteration of `for ch in w`
MainResolveLetter ==
    /\ rresolver = "main"
    /\ rpc = "letters"
    /\ LET w == _strip_punct(rword)
           ch == <<w[ridx + 1]>>
       IN  /\ rcalls' = Append(rcalls, ch)
           /\ rurls' = rurls \o get_asl_video_url(rsigns, ch)
           /\ ridx' = ridx + 1
           /\ rpc' = IF ridx + 1 = Len(w) THEN "done" ELSE "letters"
    /\ ResolveFrame

\* signals.py 180-184
SignalsResolveWord ==
    /\ rresolver = "signals"
    /\ rpc = "word"
    /\ LET urls == fetch_signasl_urls(rsigns, rword) IN
         /\ rcalls' = Append(rcalls, signals_strip_punct(rword))
         /\ IF urls # <<>>
            THEN rurls' = SubSeq(urls, 1, Min(WordCap, Len(urls))) /\ rpc' = "done"
            ELSE /\ rurls' = <<>>
                 /\ rpc' = IF signals_strip_punct(rword) = <<>> THEN "done" ELSE "letters"
    /\ UNCHANGED ridx
    /\ ResolveFrame

\* signals.py 185-191: one iteration of `for ch in _strip_punct(word)`
SignalsResolveLetter ==
    /\ rresolver = "signals"
    /\ rpc = "letters"
    /\ LET w == signals_strip_punct(rword)
           ch == <<w[ridx + 1]>>
           u == fetch_signasl_urls(rsigns, ch)
           outp == IF u # <<>> THEN Append(rurls, u[1]) ELSE rurls
       IN  /\ rcalls' = Append(rcalls, ch)
           /\ rurls' = outp
           /\ ridx' = ridx + 1
           /\ rpc' = IF Len(outp) >= LetterCap \/ ridx + 1 = Len(w) THEN "done" ELSE "letters"
    /\ ResolveFrame

NextResolve ==
    \/ AppResolveWord
    \/ AppResolveLetter
    \/ MainResolveWord
    \/ MainResolveLetter
    \/ SignalsResolveWord
    \/ SignalsResolveLetter

SpecResolve == InitResolve /\ [][NextResolve]_vars

\* ------------------------------------------- generate_merged_video, in detail
\* A plan entry here is the kind of its URL (the suffix _download_clip_to_mp4
\* branches on) and its duration in milliseconds.
Kinds == {"m3u8", "mp4", "webm", "other"}
EntryDurs == {50, 120}
MergePlans == UNION {[1..n -> [kind : Kinds, dur : EntryDurs]] : n \in 1..MaxClips}

\* a temporary file of tempfile.NamedTemporaryFile(delete=False, suffix=...),
\* named by the entry it was created for and its suffix
TempFile(i, suffix) == <<i, suffix>>
NoPath == <<>>

\* worker.py _download_clip_to_mp4 for entry i: net is whether the HTTP GET
\* of the media answered ok, ff whether ffmpeg returned 0.  path is the
\* file returned (NoPath when the function raises), left the temporary
\* files it created that exist when it returns or raises.
_download_clip_to_mp4(i, kind, net, ff) ==
    IF kind = "m3u8"
    THEN [path |-> IF ff THEN TempFile(i, "mp4") ELSE NoPath, left |-> {TempFile(i, "mp4")}]
    ELSE IF ~net THEN [path |-> NoPath, left |-> {}]
    ELSE IF kind = "mp4" THEN [path |-> TempFile(i, "mp4"), left |-> {TempFile(i, "mp4")}]
    ELSE IF kind = "webm"
    THEN [path |-> IF ff THEN TempFile(i, "mp4") ELSE NoPath,
          left |-> {TempFile(i, "webm"), TempFile(i, "mp4")} \ {TempFile(i, "webm")}]
    ELSE [path |-> IF ff THEN TempFile(i, "mp4") ELSE NoPath, left |-> {TempFile(i, "mp4")}]

\* what became of an entry
Fate(path, opened) ==
    IF path = NoPath THEN "download_failed" ELSE IF opened THEN "ok" ELSE "open_failed"

Range(seq) == {seq[n] : n \in 1..Len(seq)}

InitMerge ==
    /\ mplan \in MergePlans
    /\ mpc = "loop"
    /\ midx = 0
    /\ tmp_files = <<>>
    /\ clips = <<>>
    /\ mfiles = {}
    /\ mfate = <<>>
    /\ mvideo = <<>>
    /\ mout = "absent"
    /\ merr = ""
    /\ signs = NoHits
    /\ pbuilder = "none"
    /\ pwords = <<>>
    /\ pidx = 0
    /\ pplan = <<>>
    /\ JobsIdle
    /\ ResolverIdle
    /\ PollIdle

MergeFrame == UNCHANGED <<planVars, jobVars, resVars, pollVars>>

\* mutant of MergeEntry: the failure of an entry is not caught and ends the loop
MergeEntryAbort ==
    /\ mpc = "loop"
    /\ \E net \in BOOLEAN, ff \in BOOLEAN, opened \in BOOLEAN :
         LET i == midx + 1
             d == _download_clip_to_mp4(i, mplan[i].kind, net, ff)
             good == d.path # NoPath /\ opened
         IN  /\ mfiles' = mfiles \cup d.left
             /\ tmp_files' = IF d.path # NoPath THEN Append(tmp_files, d.path) ELSE tmp_files
             /\ clips' = IF good
                         THEN Append(clips, [entry |-> i, dur |-> Max(mplan[i].dur, ClipFloorMs)])
                         ELSE clips
             /\ mfate' = Append(mfate, Fate(d.path, opened))
             /\ midx' = i
             /\ merr' = IF good THEN "" ELSE "clip failed"
             /\ mpc' = IF ~good THEN "finally" ELSE IF i = Len(mplan) THEN "concat" ELSE "loop"
    /\ UNCHANGED <<mplan, mvideo, mout>>
    /\ MergeFrame

\* worker.py 237-248: one iteration of `for item in video_plan`: download,
\* remember the file, open the clip and set its duration; any exception
\* skips the entry
MergeEntry ==
    /\ mpc = "loop"
    /\ \E net \in BOOLEAN, ff \in BOOLEAN, opened \in BOOLEAN :
         LET i == midx + 1
             d == _download_clip_to_mp4(i, mplan[i].kind, net, ff)
         IN  /\ mfiles' = mfiles \cup d.left
             /\ tmp_files' = IF d.path # NoPath THEN Append(tmp_files, d.path) ELSE tmp_files
             /\ clips' = IF d.path # NoPath /\ opened
                         THEN Append(clips, [entry |-> i, dur |-> Max(mplan[i].dur, ClipFloorMs)])
                         ELSE clips
             /\ mfate' = Append(mfate, Fate(d.path, opened))
             /\ midx' = i
             /\ mpc' = IF i = Len(mplan) THEN "concat" ELSE "loop"
    /\ UNCHANGED <<mplan, mvideo, mout, merr>>
    /\ MergeFrame

\* worker.py 250-263: fail without clips, else concatenate, encode to
\* output_path and check the file written
MergeConcat ==
    /\ mpc = "concat"
    /\ mpc' = "finally"
    /\ IF clips = <<>>
       THEN merr' = MsgNoClips /\ UNCHANGED <<mvideo, mout>>
       ELSE /\ mvideo' = clips
            /\ \E enc \in {"valid", "empty", "missing", "raise_partial", "raise_absent"} :
                 CASE enc = "valid" -> mout' = "valid" /\ merr' = ""
                   [] enc = "empty" -> mout' = "empty" /\ merr' = MsgNotWritten
                   [] enc = "missing" -> mout' = "absent" /\ merr' = MsgNotWritten
                   [] enc = "raise_partial" -> mout' = "partial" /\ merr' = MsgEncoder
                   [] enc = "raise_absent" -> mout' = "absent" /\ merr' = MsgEncoder
    /\ UNCHANGED <<mplan, midx, tmp_files, clips, mfiles, mfate>>
    /\ MergeFrame

\* worker.py 264-267: remove every file of tmp_files, then return or let the
\* exception go on (os.remove of a file just created is taken to succeed)
MergeFinally ==
    /\ mpc = "finally"
    /\ mfiles' = mfiles \ Range(tmp_files)
    /\ mpc' = IF merr = "" THEN "returned" ELSE "raised"
    /\ UNCHANGED <<mplan, midx, tmp_files, clips, mfate, mvideo, mout, merr>>
    /\ MergeFrame

NextMerge == MergeEntry \/ MergeConcat \/ MergeFinally

SpecMerge == InitMerge /\ [][NextMerge]_vars

\* --------------------------------------- the transcription poll loop, in detail
\* An answer of GET /v2/transcript/<id>: the status field of the JSON, or
\* "unreachable" for a request that raises or answers with an HTTP error.
\* "missing" stands for a JSON without a status field.
Pending == {"queued", "processing", "missing"}
Final == {"completed", "error", "unreachable"}

\* The service reports a final answer after at most MaxPolls pending ones.
Scripts ==
    {Append(pre, fin) : pre \in UNION {[1..n -> Pending] : n \in 0..MaxPolls}, fin \in Final}

InitPoll ==
    /\ tscript \in Scripts
    /\ tpc = "request"
    /\ tseen = <<>>
    /\ tresult = 0
    /\ terr = ""
    /\ trecord = ProcessingRecord
    /\ signs = NoHits
    /\ pbuilder = "none"
    /\ pwords = <<>>
    /\ pidx = 0
    /\ pplan = <<>>
    /\ JobsIdle
    /\ ResolverIdle
    /\ MergeIdle

PollFrame == UNCHANGED <<planVars, jobVars, resVars, mergeVars>>

\* mutant of PollRequest: any status but "error" is taken for the transcript
PollRequestReturnsEarly ==
    /\ tpc = "request"
    /\ LET status == tscript[Len(tseen) + 1] IN
         /\ tseen' = Append(tseen, status)
         /\ IF status = "unreachable" THEN tpc' = "raised" /\ terr' = MsgHttp /\ UNCHANGED tresult
            ELSE IF status = "error"
            THEN tpc' = "raised" /\ terr' = MsgAaiError /\ UNCHANGED tresult
            ELSE /\ tpc' = "returned"
                 /\ \E r \in 1..Len(AaiResponses) : tresult' = r
                 /\ UNCHANGED terr
    /\ UNCHANGED <<tscript, trecord>>
    /\ PollFrame

\* worker.py 83-91: one request of the poll loop and what it leads to
PollRequest ==
    /\ tpc = "request"
    /\ LET status == tscript[Len(tseen) + 1] IN
         /\ tseen' = Append(tseen, status)
         /\ IF status = "unreachable" THEN tpc' = "raised" /\ terr' = MsgHttp /\ UNCHANGED tresult
            ELSE IF status = "completed"
            THEN /\ tpc' = "returned"
                 /\ \E r \in 1..Len(AaiResponses) : tresult' = r
                 /\ UNCHANGED terr
            ELSE IF status = "error"
            THEN tpc' = "raised" /\ terr' = MsgAaiError /\ UNCHANGED tresult
            ELSE tpc' = "sleep" /\ UNCHANGED <<tresult, terr>>
    /\ UNCHANGED <<tscript, trecord>>
    /\ PollFrame

\* worker.py 92: time.sleep(2), then the next round of `while True`
PollSleep ==
    /\ tpc = "sleep"
    /\ tpc' = "request"
    /\ UNCHANGED <<tscript, tseen, tresult, terr, trecord>>
    /\ PollFrame

\* worker.py 285-291: transcribe_with_assemblyai returned, the plan build starts
PollWorkerGoesOn ==
    /\ tpc = "returned"
    /\ tpc' = "plan"
    /\ UNCHANGED <<tscript, tseen, tresult, terr, trecord>>
    /\ PollFrame

\* worker.py 333-337: transcribe_with_assemblyai raised, the job is recorded as error
PollWorkerExcept ==
    /\ tpc = "raised"
    /\ trecord' = ErrorPayload(terr)
    /\ tpc' = "recorded"
    /\ UNCHANGED <<tscript, tseen, tresult, terr>>
    /\ PollFrame

NextPoll == PollRequest \/ PollSleep \/ PollWorkerGoesOn \/ PollWorkerExcept

\* The worker is a thread of its own and every request has a timeout: a
\* step of the loop that can be taken is taken.
SpecPoll == InitPoll /\ [][NextPoll]_vars /\ WF_vars(NextPoll)

\* ================================================================ claims
Terminal == {"ready", "error"}

\* the job's handler has returned and no worker thread of it runs or will run
Settled(j) == hpc[j] = "returned" /\ wpc[j] \in {"none", "done", "crashed"}

\* C1: a job record's state changes only from processing to ready or to
\* error; a record is created as processing, a terminal record is never
\* changed or removed by any later step, and a terminal record is written at
\* most once per job.
C1_TerminalIsFinal ==
    [][\A j \in JobIds :
         /\ j \in DOMAIN video_jobs =>
              /\ j \in DOMAIN video_jobs'
              /\ video_jobs[j].status \in Terminal => video_jobs'[j] = video_jobs[j]
              /\ video_jobs'[j].status # video_jobs[j].status =>
                    video_jobs[j].status = "processing" /\ video_jobs'[j].status \in Terminal
         /\ (j \notin DOMAIN video_jobs /\ j \in DOMAIN video_jobs') =>
              video_jobs'[j] = ProcessingRecord
         /\ termWrites'[j] <= 1]_vars

\* C1 witness: a worker has recorded ready and finished, and a status query
\* for that job has been answered afterwards.
C1_Witness ==
    \E j \in DOMAIN video_jobs :
        /\ video_jobs[j].status = "ready"
        /\ wpc[j] = "done"
        /\ termWrites[j] = 1
        /\ lastStatus.job = j
        /\ lastStatus.resp.status = "ready"

\* C2: every job created by a submission endpoint ends ready or error: once
\* its handler has returned and no worker thread of it is left to run, its
\* record is not processing.
C2_NoJobLeftProcessing ==
    \A j \in DOMAIN video_jobs : Settled(j) => video_jobs[j].status \in Terminal

InvalidInputMsgs == {MsgInvalidB64, MsgTooSmall}

\* C3: a submission with an undecodable or empty payload is refused at
\* submission time, its job ends in error with an invalid-input message, and
\* no temp_<job_id> file is left once the job has settled.
C3_MalformedInputRecorded ==
    \A j \in DOMAIN video_jobs :
        (Settled(j) /\ (Undecodable(input[j]) \/ DecodedSize(input[j]) = 0)) =>
            /\ http[j] >= 400
            /\ video_jobs[j].status = "error"
            /\ video_jobs[j].error \in InvalidInputMsgs
            /\ temp[j] = NoFile

\* C4: a ready record has an output location and no error detail, an error
\* record has an error detail and no output location, a processing record
\* has neither.
C4_OneResultField ==
    \A j \in DOMAIN video_jobs :
        LET r == video_jobs[j] IN
        /\ r.status \in {"processing", "ready", "error"}
        /\ r.status = "ready" => r.video_url # NoUrl /\ r.error = Absent
        /\ r.status = "error" => r.error # Absent /\ r.video_url = NoUrl
        /\ r.status = "processing" => r.video_url = NoUrl /\ r.error = Absent

\* C4 witness: one job is ready while another is in error.
C4_Witness ==
    \E j, k \in DOMAIN video_jobs :
        video_jobs[j].status = "ready" /\ video_jobs[k].status = "error"

\* C5: once a job has settled, its temporary audio file does not exist.
C5_TempFileRemoved ==
    \A j \in JobIds : Settled(j) => temp[j] = NoFile

\* C6: the on-disk record jobs/<job_id>.json holds the same payload as the
\* in-memory record, after every transition of the record.
C6_DiskMirrorsMemory ==
    \A j \in DOMAIN video_jobs : j \in DOMAIN disk_jobs /\ disk_jobs[j] = video_jobs[j]

\* C7: when the in-memory store has no record of a job id but that job's
\* output file exists, video_status answers ready with that output location.
C7_StatusRecoversFromArtifact ==
    \A j \in JobIds :
        (j \notin DOMAIN video_jobs /\ out[j] = "valid") =>
            /\ video_status(deployed, video_jobs, j).status = "ready"
            /\ video_status(deployed, video_jobs, j).video_url = OutputUrl(j)

StatusAnswers == {"processing", "ready", "error", "not_found"}

\* C8: video_status answers every job id with exactly one of processing,
\* ready, error and not_found, not_found exactly for an id without a record;
\* a status call changes nothing but the response it returns, which is the
\* one video_status computes; and a call that follows a call on the same job
\* answered ready or error returns the identical response.
C8_StatusIsPureRead ==
    /\ [](\A j \in JobIds :
            LET r == video_status(deployed, video_jobs, j) IN
            /\ r.status \in StatusAnswers
            /\ r.status = "not_found" <=> j \notin DOMAIN video_jobs)
    /\ [][lastStatus' # lastStatus =>
            /\ UNCHANGED <<video_jobs, disk_jobs, temp, out, wpc, hpc, termWrites>>
            /\ lastStatus'.resp = video_status(deployed, video_jobs, lastStatus'.job)
            /\ lastStatus'.resp.status \in StatusAnswers
            /\ (lastStatus'.job = lastStatus.job /\ lastStatus.resp.status \in Terminal) =>
                  lastStatus'.resp = lastStatus.resp]_vars

\* C8 witness: a status call on a job whose worker recorded an error.
C8_Witness ==
    \E j \in DOMAIN video_jobs :
        /\ lastStatus.job = j
        /\ lastStatus.resp.status = "error"
        /\ wpc[j] = "done"

\* the plan entries of word i, in plan order
EntriesOf(i) == SelectSeq(pplan, LAMBDA e : e.w = i)

\* what the builder's resolver returns for word i
Resolved(i) ==
    IF pbuilder = "worker" THEN translate_text_to_sign(signs, Strip(pwords[i].text))
    ELSE lookup_sign_urls_for_word(signs, pwords[i].text)

\* C9: the plan keeps transcript order: the entries of word i come before
\* those of word j for i < j; a consumed word contributes exactly the clip
\* references its resolver returned, in that order; a word that resolves to
\* none, or whose text is empty, contributes no entry.
C9_PlanKeepsOrder ==
    /\ \A p, q \in 1..Len(pplan) : p < q => pplan[p].w <= pplan[q].w
    /\ \A p \in 1..Len(pplan) : pplan[p].w \in 1..pidx
    /\ \A i \in 1..pidx :
         /\ Len(EntriesOf(i)) = Len(Resolved(i))
         /\ \A n \in 1..Len(EntriesOf(i)) : EntriesOf(i)[n].url = Resolved(i)[n]
         /\ Strip(pwords[i].text) = <<>> => EntriesOf(i) = <<>>

\* C9 witness: a finished plan of two words, the first resolved to several
\* clips, the second to one.
C9_Witness ==
    /\ pidx = 2
    /\ Len(pwords) = 2
    /\ Len(Resolved(1)) >= 2
    /\ Len(Resolved(2)) = 1
    /\ Len(pplan) >= 3

\* span of word i in milliseconds, floored at 0.12 s
WordDurMs(i) == Max(pwords[i].end - pwords[i].start, WordFloorMs)

\* the entries of word i carry the durations the claim gives a word of
\* duration d (dur is <<num, den>>, a fraction of milliseconds)
DurationsFor(i, d) ==
    LET es == EntriesOf(i)
        k == Len(es)
    IN  \A n \in 1..k :
          LET num == es[n].dur[1]
              den == es[n].dur[2]
          IN  /\ k = 1 => num = d * den
              /\ num >= ClipFloorMs * den
              /\ (k > 1 /\ d >= ClipFloorMs * k) => num * k = d * den
              /\ (k > 1 /\ d < ClipFloorMs * k) => (num = ClipFloorMs * den /\ num * k > d * den)

\* C10 (as claimed): a word's duration is max((end - start)/1000, 0.12 s);
\* one reference gets the full duration, k > 1 references get
\* max(duration/k, 0.08 s) each, so every entry is at least 0.08 s and the
\* entries sum to the duration when duration/k >= 0.08 s and to more
\* otherwise.
C10_PlanDurations == \A i \in 1..pidx : DurationsFor(i, WordDurMs(i))

\* the word-duration floor of the builder that runs
BuilderFloorMs == IF pbuilder = "main" THEN MainWordFloorMs ELSE WordFloorMs

\* C10 (amended): as claimed, with the word duration floored at 0.12 s in
\* worker.py's plan build and at 0.10 s in main.py's build_video_plan.
C10_PlanDurationsPerBuilder ==
    \A i \in 1..pidx :
        DurationsFor(i, Max(pwords[i].end - pwords[i].start, BuilderFloorMs))

\* C10 witness: main.py's builder has given a 50 ms word with one clip its
\* floor, and split a 110 ms word over two clips at the per-clip floor.
C10_Witness ==
    /\ pbuilder = "main"
    /\ pidx = 2
    /\ pwords[1].end - pwords[1].start = 50
    /\ Len(EntriesOf(1)) = 1
    /\ pwords[2].end - pwords[2].start = 110
    /\ Len(EntriesOf(2)) = 2

\* the resolvers the deployments hand to the worker (app.py 101, main.py 239)
PipelineResolvers == {"app", "main"}

RECURSIVE LetterHitsOf(_, _)
\* the first reference of every letter of w that has one, in letter order
LetterHitsOf(table, w) ==
    IF w = <<>> THEN <<>>
    ELSE (IF table[<<Head(w)>>] >= 1 THEN <<Url(<<Head(w)>>, 1)>> ELSE <<>>)
         \o LetterHitsOf(table, Tail(w))

\* what C11 says of a finished run of the resolver
ResolverCaps ==
    LET w == _strip_punct(rword)
        whole == IF w = <<>> THEN 0 ELSE rsigns[w]
        hits == LetterHitsOf(rsigns, w)
    IN  IF whole >= 1
        THEN /\ Len(rurls) \in 1..WordCap
             /\ \A n \in 1..Len(rurls) : rurls[n] = Url(w, n)
             /\ rcalls = <<w>>
        ELSE rurls = SubSeq(hits, 1, Min(LetterCap, Len(hits)))

\* C11: the resolver the pipeline uses returns at most 2 references when the
\* whole-word lookup yields any, and otherwise the per-letter lookups in
\* letter order, capped at 6 in total; letters are looked up only when the
\* whole-word lookup returned none, and the result is empty when neither
\* yields a reference.
C11_ResolverCaps == (rpc = "done" /\ rresolver \in PipelineResolvers) => ResolverCaps

\* signals.py's resolver, which no deployment imports, does what C11 says
SignalsResolverCaps == (rpc = "done" /\ rresolver = "signals") => ResolverCaps

\* the table with every failed lookup replaced by an empty answer
Quiet(table) == [t \in DOMAIN table |-> IF table[t] = ApiFail THEN 0 ELSE table[t]]

\* C12: a network or parse error of a lookup counts as no result for that
\* token and never ends the job: the plan the worker builds is the plan it
\* would build had every failed lookup answered with nothing, the build goes
\* on to the merge with it, and the job fails at this stage only when that
\* plan is empty.
C12_LookupErrorIsNoResult ==
    [][\A j \in JobIds :
         (wpc[j] = "plan" /\ wpc'[j] # "plan") =>
            LET p == WorkerPlan(Quiet(signs), AaiResponses[aai[j]].words) IN
            IF p = <<>>
            THEN wpc'[j] = "except" /\ werr'[j] = MsgNoClips
            ELSE wpc'[j] = "merge" /\ plan'[j] = p /\ werr'[j] = ""]_vars

\* C12 witness: the lookups of the whole word "ab" and of its letter "b"
\* failed, and the worker went on to merge the clip found for its letter "a"
\* and the one of the next word, "a"
C12_Witness ==
    \E j \in JobIds :
        /\ signs = Flaky
        /\ wpc[j] = "merge"
        /\ Len(plan[j]) = 2
        /\ plan[j][1].url = Url(<<"a">>, 1) /\ plan[j][1].w = 1
        /\ plan[j][2].url = Url(<<"a">>, 1) /\ plan[j][2].w = 2

\* the messages of the failures of transcribe_with_assemblyai
TranscriptionMsgs == {MsgNoKey, MsgTooSmall, MsgHttp, MsgAaiError}

\* C13: when transcription succeeded and the plan is empty, the worker
\* raises at the plan stage with a message that is none of the transcription
\* failures' messages, records the job as error with that message, never
\* enters the merge stage afterwards, and the job's output file stays absent.
C13_EmptyPlanFails ==
    [][\A j \in JobIds :
         /\ (wpc[j] = "plan" /\ wpc'[j] # "plan"
               /\ WorkerPlan(signs, AaiResponses[aai[j]].words) = <<>>) =>
              /\ wpc'[j] = "except"
              /\ werr'[j] = MsgNoClips
              /\ werr'[j] \notin TranscriptionMsgs
              /\ out[j] = "absent" /\ out'[j] = "absent"
         /\ (wpc[j] = "except" /\ wpc'[j] # "except") =>
              /\ wpc'[j] = "finally"
              /\ video_jobs'[j] = ErrorPayload(werr[j])
              /\ out'[j] = out[j]
         /\ (wpc[j] = "finally" /\ wpc'[j] # "finally") =>
              wpc'[j] = "done" /\ out'[j] = out[j]
         /\ wpc[j] = "done" => wpc'[j] = "done" /\ out'[j] = out[j]]_vars

\* C13 witness: no token has a clip, the transcript came back, and the job
\* ended in error with the empty-plan message and without an output file
C13_Witness ==
    \E j \in JobIds :
        /\ signs = NoHits
        /\ wpc[j] = "done"
        /\ video_jobs[j] = ErrorPayload(MsgNoClips)
        /\ out[j] = "absent"

\* C14: whenever merge ended in failure (every fetch failed, the encoder
\* raised, or the written file is missing or empty) the job is recorded as
\* error and its output file is absent or a complete valid file, never a
\* zero-byte or partially written one.
C14_NoBrokenOutput ==
    \A j \in JobIds :
        (wpc[j] \in {"finally", "done"} /\ video_jobs[j].status = "error") =>
            out[j] \in {"absent", "valid"}

RECURSIVE Survivors(_)
\* the entries among the first n whose clip was fetched and opened, in plan order
Survivors(n) ==
    IF n = 0 THEN <<>>
    ELSE IF mfate[n] = "ok" THEN Append(Survivors(n - 1), n) ELSE Survivors(n - 1)

\* C15: in merge, an entry whose fetch, conversion or open fails is dropped
\* and nothing else: every entry of the plan is processed, the clips kept are
\* exactly the entries that did not fail, in plan order, they are what is
\* concatenated, and merge raises for want of clips only when none survived.
C15_DropOnlyFailed ==
    LET s == Survivors(midx) IN
    /\ clips = [k \in 1..Len(s) |->
                  [entry |-> s[k], dur |-> Max(mplan[s[k]].dur, ClipFloorMs)]]
    /\ mpc = "loop" => merr = ""
    /\ mpc \in {"concat", "finally", "returned", "raised"} => midx = Len(mplan)
    /\ mpc \in {"finally", "returned", "raised"} =>
          /\ merr = MsgNoClips <=> clips = <<>>
          /\ clips # <<>> => mvideo = clips

\* C15 witness: the first of two entries failed, the second was still
\* processed and the merge returned with a valid file made of it alone
C15_Witness ==
    /\ mpc = "returned"
    /\ Len(mplan) = 2
    /\ mfate = <<"download_failed", "ok">>
    /\ mvideo = <<[entry |-> 2, dur |-> Max(mplan[2].dur, ClipFloorMs)]>>
    /\ mout = "valid"

\* C16: every temporary per-clip file created during a merge is deleted by
\* the time merge returns or raises, also when the conversion or fetch of
\* the clip failed after the file was created.
C16_TempClipsRemoved == mpc \in {"returned", "raised"} => mfiles = {}

\* the answer the request at hand receives
Answer == tscript[Len(tseen) + 1]

\* C17: the poll loop polls again after every status other than completed
\* and error, returns the transcript only on completed, and on a reported
\* error or an unreachable service the job ends in error with neither plan
\* build nor merge started; when the service reports completed or error
\* after finitely many other answers, the loop ends.
C17_PollLoop ==
    /\ [][/\ (tpc = "request" /\ Answer \in Pending) => tpc' = "sleep"
          /\ tpc = "sleep" => tpc' = "request"
          /\ tpc' = "returned" => (tpc = "request" /\ Answer = "completed" /\ tresult' # 0)
          /\ (tpc = "request" /\ Answer \in {"error", "unreachable"}) => tpc' = "raised"
          /\ tpc = "raised" => (tpc' = "recorded" /\ trecord' = ErrorPayload(terr))
          /\ tpc = "recorded" => tpc' = "recorded"
          /\ tpc' = "plan" => (tpc = "returned" /\ trecord' = ProcessingRecord)]_vars
    /\ <>(tpc \in {"plan", "recorded"})

\* C17 witness: the service answered twice with something other than
\* completed or error, was polled again each time, and then completed
C17_Witness ==
    /\ tpc = "plan"
    /\ Len(tseen) = 3
    /\ tseen[1] \in Pending /\ tseen[2] \in Pending /\ tseen[3] = "completed"
    /\ tresult # 0

\* job j's record is not the same after the step as before it
RecordChanged(j) ==
    /\ j \in DOMAIN video_jobs'
    /\ (j \in DOMAIN video_jobs => video_jobs'[j] # video_jobs[j])

\* C18: under every interleaving of handlers, workers and status queries, a
\* step changes job j's record only when it is j's submission handler (the
\* initial record, or the error of an undecodable payload) or j's own worker
\* (the ready or error record that worker computed from its own transcript,
\* job id and exception); no step removes a record.
C18_OwnWriterOnly ==
    [][\A j \in JobIds :
         /\ j \in DOMAIN video_jobs => j \in DOMAIN video_jobs'
         /\ RecordChanged(j) =>
              \/ /\ nextId = j /\ nextId' = j + 1
                 /\ video_jobs'[j] = ProcessingRecord
              \/ /\ hpc[j] = "created" /\ hpc'[j] = "returned"
                 /\ video_jobs'[j] = ErrorPayload(MsgInvalidB64)
              \/ /\ wpc[j] = "ready" /\ wpc'[j] = "finally"
                 /\ video_jobs'[j] = ReadyPayload(j, AaiResponses[aai[j]].text)
              \/ /\ wpc[j] = "except" /\ wpc'[j] = "finally"
                 /\ video_jobs'[j] = ErrorPayload(werr[j])]_vars

\* C18 witness: two jobs ran side by side and ended differently, each with
\* the record of its own worker
C18_Witness ==
    /\ wpc[1] = "done" /\ wpc[2] = "done"
    /\ video_jobs[1].status = "error"
    /\ video_jobs[2] = ReadyPayload(2, AaiResponses[2].text)

\* C19: a record becomes ready only in the step after a merge that returned
\* successfully: at that moment the job's output file exists and is valid
\* (non-zero size), and the record's video_url is /videos/output_<job_id>.mp4
\* of that same job.
C19_ReadyHasOutput ==
    [][\A j \in JobIds :
         /\ (wpc'[j] = "ready" /\ wpc[j] # "ready") => (wpc[j] = "merge" /\ out'[j] = "valid")
         /\ (j \in DOMAIN video_jobs' /\ video_jobs'[j].status = "ready" /\ RecordChanged(j)) =>
              /\ wpc[j] = "ready"
              /\ out[j] = "valid" /\ out'[j] = "valid"
              /\ video_jobs'[j].video_url = OutputUrl(j)]_vars

\* C19 witness: the second job's record is ready, with its own URL and a
\* valid output file
C19_Witness ==
    /\ 2 \in DOMAIN video_jobs
    /\ video_jobs[2].status = "ready"
    /\ video_jobs[2].video_url = OutputUrl(2)
    /\ out[2] = "valid"
    /\ wpc[2] = "finally"

====
